---- MODULE Spec2Model ----
(***************************************************************************)
(* Model of src/collision_CV/collision_detector.py: module start-up, the   *)
(* per-frame main loop (face detections, raw collision test, temporal      *)
(* confirmation, clip trigger, pre-event ring buffer) and the teardown.    *)
(*                                                                         *)
(* Time is an integer number of milliseconds (time.time() is a float of    *)
(* seconds in the source).  A frame is identified by its capture number    *)
(* in the loop (1 for the first loop iteration).  A face returned by the   *)
(* landmark detector is given by the outcome of its pose solve, its        *)
(* hitbox (x1, y1, x2, y2) in pixels, its rotation vector (degrees) and    *)
(* its translation vector in mm.  Of a velocity the model keeps whether it *)
(* was computed and the dt it was divided by; rendering is left out.       *)
(***************************************************************************)
EXTENDS Integers, Sequences, FiniteSets, TLC

VARIABLES
    pc,                    \* position of the script: start-up steps, loop, teardown
    cam_fps,               \* what cap.get(CAP_PROP_FPS) reports (0: nothing)
    clip_fps,              \* global clip_fps (0: name not yet bound)
    clock,                 \* time.time() of the latest capture, ms
    n,                     \* frames captured by the loop so far
    prebuffer,             \* deque of [ts, fr]
    overlap_streak,
    currently_overlapping,
    collision_count,
    clip_active,
    clip_writer,           \* 0 (None) or the index in sinks of the open writer
    sinks,                 \* every VideoWriter that opened: what it received
    clip_attempts,         \* calls of _start_collision_clip so far
    released,              \* resources released by the finally block, in order
    trace,                 \* per captured frame: time, faces, raw test, velocities, whether it fired
    save_video,            \* SAVE_VIDEO
    out,                   \* the full-session writer: "unbound", "open" or "released"
    exc,                   \* the exception that ended the script or the loop, "none" if none
    prev_rvecs,            \* per face index: rotation vector of the latest pose, <<>> for None
    prev_tvecs,            \* per face index: translation vector of the latest pose, <<>> for None
    prev_time,             \* time.time() of the latest frame that had a detection, ms
    probe,                 \* a call of a pure function on its own: name, arguments, result
    \* the sensor readers (src/accelerometer_reader_clean.py and
    \* src/handle_serial/accelerometer_reader_clean.py), time in whole seconds
    reader,                \* which script runs: "none", "single" or "paired"
    send_all_data,         \* SEND_ALL_DATA
    alert_cooldown,        \* ALERT_COOLDOWN, s
    reader_pc,             \* "off", "start", "listen" or "exit"
    reader_exc,            \* the exception that ended main(), "none" if none
    reader_clock,          \* time.time() of the script, s
    hit_count,
    event_count,
    last_alert_time,
    latest_g_force,        \* <<>> for None
    latest_gyroscope,      \* <<>> for None
    waiting_for_gyroscope,
    readings,              \* every parsed line, in order: kind, value, time, hit number
    alerts,                \* every G-force alert: hit number, time
    sends                  \* every call of send_to_database: arguments, response, result

vars == <<pc, cam_fps, clip_fps, clock, n, prebuffer, overlap_streak,
          currently_overlapping, collision_count, clip_active, clip_writer,
          sinks, clip_attempts, released, trace, save_video, out, exc,
          prev_rvecs, prev_tvecs, prev_time, probe,
          reader, send_all_data, alert_cooldown, reader_pc, reader_exc, reader_clock,
          hit_count, event_count, last_alert_time, latest_g_force,
          latest_gyroscope, waiting_for_gyroscope, readings, alerts, sends>>

\* the variables of the collision detector
detector_vars ==
    <<pc, cam_fps, clip_fps, clock, n, prebuffer, overlap_streak,
      currently_overlapping, collision_count, clip_active, clip_writer,
      sinks, clip_attempts, released, trace, save_video, out, exc,
      prev_rvecs, prev_tvecs, prev_time, probe>>

\* the variables of the sensor readers
sensor_vars ==
    <<reader, send_all_data, alert_cooldown, reader_pc, reader_exc, reader_clock,
      hit_count, event_count, last_alert_time, latest_g_force,
      latest_gyroscope, waiting_for_gyroscope, readings, alerts, sends>>

-----------------------------------------------------------------------------
(* Configuration of the source.                                              *)

CLIP_PRE_SECONDS == 5
DEFAULT_CLIP_FPS == 20
DEPTH_DIFF_MAX == 200
DIST_3D_MAX == 400
FRAMES_CONFIRM == 2
\* COLLISION_IOU_THRESHOLD = 0.05, as the fraction 1/20
COLLISION_IOU_THRESHOLD == <<1, 20>>

-----------------------------------------------------------------------------
(* Bounds of the model.                                                      *)

MaxFrames == 4          \* frames per run of Spec
MaxDetectFrames == 7    \* frames per run of SpecDetect
ExtraFrames == 5        \* frames pushed beyond window x rate in SpecRing
MaxExitFrames == 5      \* frames per run of SpecExit
MaxPoseFrames == 3      \* frames per run of SpecPose
MaxCoord == 3           \* largest pixel coordinate of the boxes of SpecPure
MaxLines == 3           \* lines read from the serial port per run of SpecSensor
MaxSendLines == 2       \* lines read from the serial port per run of SpecSend

\* frame rates a capture device may report; 0 stands for "none"
CamRates == {0, 25}
\* frame rates of the devices of SpecRing, which deliver at the rate they report
RingRates == {10, 20, 25}
\* time between two captures, ms
DtSet == {2000, 3000}
DetectDtSet == {50}

\* faces the landmark detector may return
FaceA ==
    [ok |-> TRUE, bbox |-> <<0, 0, 10, 10>>, rvec |-> <<0, 0, 0>>, tvec |-> <<0, 0, 500>>]
FaceNear ==
    [ok |-> TRUE, bbox |-> <<5, 0, 15, 10>>, rvec |-> <<0, 10, 0>>, tvec |-> <<100, 0, 600>>]
FaceDeep ==
    [ok |-> TRUE, bbox |-> <<5, 0, 15, 10>>, rvec |-> <<0, 20, 0>>, tvec |-> <<0, 0, 800>>]
FaceWide ==
    [ok |-> TRUE, bbox |-> <<5, 0, 15, 10>>, rvec |-> <<0, 10, 0>>, tvec |-> <<390, 0, 600>>]
FaceApart ==
    [ok |-> TRUE, bbox |-> <<20, 0, 30, 10>>, rvec |-> <<0, 10, 0>>, tvec |-> <<100, 0, 600>>]
FaceGraze ==
    [ok |-> TRUE, bbox |-> <<9, 0, 29, 10>>, rvec |-> <<0, 10, 0>>, tvec |-> <<100, 0, 600>>]
\* a hitbox whose IoU with that of FaceA is exactly COLLISION_IOU_THRESHOLD
FaceEdge ==
    [ok |-> TRUE, bbox |-> <<9, 0, 20, 10>>, rvec |-> <<0, 10, 0>>, tvec |-> <<100, 0, 600>>]

Unposed(f) == [f EXCEPT !.ok = FALSE]

FirstFaces == {FaceA, Unposed(FaceA)}
SecondFaces == {FaceNear, FaceDeep, FaceWide, FaceApart, FaceGraze, Unposed(FaceNear)}

\* results.multi_face_landmarks of one frame (max_num_faces = 2)
AllScenes ==
    {<<>>} \cup {<<f>> : f \in FirstFaces}
           \cup {<<f, g>> : f \in FirstFaces, g \in SecondFaces}
\* the scenes of Spec: nobody, one face, two faces in contact, two faces apart
Scenes == {<<>>, <<FaceA>>, <<FaceA, FaceNear>>, <<FaceA, FaceApart>>}

\* every face of the model, posed or not
FacePool ==
    LET posed == {FaceA, FaceNear, FaceDeep, FaceWide, FaceApart, FaceGraze, FaceEdge}
    IN posed \cup {Unposed(f) : f \in posed}
\* every frame of at most two faces of FacePool
PureScenes ==
    {<<>>} \cup {<<f>> : f \in FacePool} \cup {<<f, g>> : f \in FacePool, g \in FacePool}
\* rectangles (x1, y1, x2, y2) with x1 <= x2 and y1 <= y2, as the clipping of
\* the hitbox produces them; zero width or height included
Boxes ==
    {b \in (0..MaxCoord) \X (0..MaxCoord) \X (0..MaxCoord) \X (0..MaxCoord) :
        b[1] <= b[3] /\ b[2] <= b[4]}

\* what happens when _start_collision_clip asks for a sink
SinkOutcomes == {"opened", "not_opened", "mkdir_error"}
\* the same, with an exception while the clip is written and an interrupt
\* from the keyboard while the clip is open
ExitOutcomes == SinkOutcomes \cup {"write_error", "interrupted"}

-----------------------------------------------------------------------------
(* Pure functions of the source.                                             *)

Max(a, b) == IF a >= b THEN a ELSE b
Min(a, b) == IF a <= b THEN a ELSE b
Abs(a) == IF a >= 0 THEN a ELSE -a

intersect_area_xyxy(a, b) ==
    LET ix1 == Max(a[1], b[1])
        iy1 == Max(a[2], b[2])
        ix2 == Min(a[3], b[3])
        iy2 == Min(a[4], b[4])
        iw == Max(0, ix2 - ix1)
        ih == Max(0, iy2 - iy1)
    IN iw * ih

\* the union taken as the sum of the two areas
compute_iou_sum_union(box_a, box_b) ==
    LET inter == intersect_area_xyxy(box_a, box_b)
        area_a == Max(0, box_a[3] - box_a[1]) * Max(0, box_a[4] - box_a[2])
        area_b == Max(0, box_b[3] - box_b[1]) * Max(0, box_b[4] - box_b[2])
        union == area_a + area_b
    IN IF inter <= 0 THEN <<0, 1>>
       ELSE IF union <= 0 THEN <<0, 1>>
       ELSE <<inter, union>>

\* The quotient inter / union is kept as the fraction <<inter, union>>;
\* 0.0 is <<0, 1>>.
compute_iou(box_a, box_b) ==
    LET inter == intersect_area_xyxy(box_a, box_b)
        area_a == Max(0, box_a[3] - box_a[1]) * Max(0, box_a[4] - box_a[2])
        area_b == Max(0, box_b[3] - box_b[1]) * Max(0, box_b[4] - box_b[2])
        union == area_a + area_b - inter
    IN IF inter <= 0 THEN <<0, 1>>
       ELSE IF union <= 0 THEN <<0, 1>>
       ELSE <<inter, union>>

\* comparisons of fractions with positive denominators
FracLess(x, y) == x[1] * y[2] < y[1] * x[2]
FracGeq(x, y) == ~FracLess(x, y)

\* the first pass without "if not success: continue"
Detections_with_failed(scene) ==
    [k \in 1..Len(scene) |->
        [fi |-> k - 1, bbox |-> scene[k].bbox,
         rvec |-> scene[k].rvec, tvec |-> scene[k].tvec]]

\* first pass of the loop: the faces whose pose solve succeeded, in order,
\* each with its index fi among the returned faces (0-based)
Detections(scene) ==
    LET Posed(i) == scene[i].ok
        idx == SelectSeq([i \in 1..Len(scene) |-> i], Posed)
    IN [k \in 1..Len(idx) |->
            [fi |-> idx[k] - 1, bbox |-> scene[idx[k]].bbox,
             rvec |-> scene[idx[k]].rvec, tvec |-> scene[idx[k]].tvec]]

\* the pair the double loop leaves in best_pair: the first pair, in loop
\* order, whose IoU is the largest, when that IoU is above 0; <<>> stands
\* for None
best_pair(detections) ==
    LET P == {p \in (1..Len(detections)) \X (1..Len(detections)) : p[1] < p[2]}
        iou(p) == compute_iou(detections[p[1]].bbox, detections[p[2]].bbox)
        Before(p, q) == p[1] < q[1] \/ (p[1] = q[1] /\ p[2] <= q[2])
        Best == {p \in P : /\ FracLess(<<0, 1>>, iou(p))
                           /\ \A q \in P : ~FracLess(iou(p), iou(q))}
    IN IF Best = {} THEN <<>>
       ELSE CHOOSE p \in Best : \A q \in Best : Before(p, q)

\* proximity granted when either bound is met
is_close3d_either(t1, t2) ==
    LET zdiff == Abs(t1[3] - t2[3])
        dx == t1[1] - t2[1]
        dy == t1[2] - t2[2]
        dz == t1[3] - t2[3]
    IN \/ zdiff < DEPTH_DIFF_MAX
       \/ dx * dx + dy * dy + dz * dz < DIST_3D_MAX * DIST_3D_MAX

is_close3d(t1, t2) ==
    LET zdiff == Abs(t1[3] - t2[3])
        dx == t1[1] - t2[1]
        dy == t1[2] - t2[2]
        dz == t1[3] - t2[3]
    IN /\ zdiff < DEPTH_DIFF_MAX
       /\ dx * dx + dy * dy + dz * dz < DIST_3D_MAX * DIST_3D_MAX

\* "if best_pair is not None and max_iou >= COLLISION_IOU_THRESHOLD:
\*  ... is_collision_now = is_close3d"; max_iou is the IoU of best_pair
pair_collides(detections, bp) ==
    IF bp # <<>>
       /\ FracGeq(compute_iou(detections[bp[1]].bbox, detections[bp[2]].bbox),
                  COLLISION_IOU_THRESHOLD)
    THEN is_close3d(detections[bp[1]].tvec, detections[bp[2]].tvec)
    ELSE FALSE

\* is_collision_now of one frame
RawCollisionTest(detections) ==
    IF Len(detections) >= 2
    THEN pair_collides(detections, best_pair(detections))
    ELSE FALSE


-----------------------------------------------------------------------------
(* The globals the loop body reads and writes, as one record.  raised, ret  *)
(* and fired are the outcome of the iteration under way: an exception that  *)
(* left the loop body, the value _start_collision_clip returned and whether *)
(* the confirmation edge was taken; exc names the exception and vels lists  *)
(* the velocities of the faces the iteration has processed.                 *)

Globals ==
    [overlap_streak |-> overlap_streak,
     currently_overlapping |-> currently_overlapping,
     collision_count |-> collision_count,
     clip_active |-> clip_active,
     clip_writer |-> clip_writer,
     sinks |-> sinks,
     clip_attempts |-> clip_attempts,
     prebuffer |-> prebuffer,
     prev_rvecs |-> prev_rvecs,
     prev_tvecs |-> prev_tvecs,
     prev_time |-> prev_time,
     vels |-> <<>>,
     exc |-> "none",
     raised |-> FALSE,
     ret |-> FALSE,
     fired |-> FALSE]

\* the window test with the oldest instant left out
in_clip_window_open(ts, now_ts) ==
    ts > now_ts - CLIP_PRE_SECONDS * 1000 /\ ts <= now_ts

\* the window test of _start_collision_clip, ms
in_clip_window(ts, now_ts) ==
    LET min_ts == now_ts - CLIP_PRE_SECONDS * 1000
    IN ts >= min_ts /\ ts <= now_ts

\* _start_collision_clip(now_ts, frame_size).  The file name is derived
\* from now_ts at a resolution of one second.  Outcomes: os.makedirs raises;
\* the writer does not open; writer.write raises on the first buffered frame,
\* the writer still being a local of the function; the writer opens and
\* takes the frames; the same, with a KeyboardInterrupt delivered right after
\* the function has bound clip_writer and clip_active.
start_collision_clip(g, now_ts, outcome) ==
    LET called == [g EXCEPT !.clip_attempts = @ + 1]
        Keep(e) == in_clip_window(e.ts, now_ts)
        kept == SelectSeq(g.prebuffer, Keep)
        writer == [path |-> now_ts \div 1000,
                   at |-> now_ts,
                   frames |-> [k \in 1..Len(kept) |-> kept[k].fr],
                   open |-> TRUE]
    IN IF outcome = "mkdir_error"
       THEN [called EXCEPT !.raised = TRUE, !.exc = "OSError"]
       ELSE IF outcome = "not_opened"
       THEN [called EXCEPT !.ret = FALSE]
       ELSE IF outcome = "write_error" /\ Len(kept) > 0
       THEN [called EXCEPT !.sinks = Append(@, [writer EXCEPT !.frames = <<>>]),
                           !.raised = TRUE, !.exc = "cv2.error"]
       ELSE IF outcome = "interrupted"
       THEN [called EXCEPT !.sinks = Append(@, writer),
                           !.clip_writer = Len(g.sinks) + 1,
                           !.clip_active = TRUE,
                           !.raised = TRUE, !.exc = "KeyboardInterrupt"]
       ELSE [called EXCEPT !.sinks = Append(@, writer),
                           !.clip_writer = Len(g.sinks) + 1,
                           !.clip_active = TRUE,
                           !.ret = TRUE]

\* the clip left open
finish_collision_clip_keep(g) == g

\* _finish_collision_clip()
finish_collision_clip(g) ==
    IF g.clip_active /\ g.clip_writer # 0
    THEN [g EXCEPT !.sinks[g.clip_writer].open = FALSE,
                   !.clip_writer = 0,
                   !.clip_active = FALSE]
    ELSE g

\* "if _start_collision_clip(now, (w, h)): _finish_collision_clip()", s being
\* the globals as _start_collision_clip left them
finish_if_started(s) ==
    IF s.raised THEN s
    ELSE IF s.ret THEN finish_collision_clip(s)
    ELSE s

\* "if not clip_active: if _start_collision_clip(now, (w, h)): _finish_collision_clip()"
clip_trigger(g, now, outcome) ==
    IF ~g.clip_active
    THEN finish_if_started(start_collision_clip(g, now, outcome))
    ELSE g

\* the streak that a frame without collision leaves as it is
next_overlap_streak_no_reset(streak, is_collision_now) ==
    IF is_collision_now THEN streak + 1 ELSE streak

\* "if is_collision_now: overlap_streak += 1 else: overlap_streak = 0"
next_overlap_streak(streak, is_collision_now) ==
    IF is_collision_now THEN streak + 1 ELSE 0

\* confirmation one frame later
is_confirmed_late(streak) == streak > FRAMES_CONFIRM

\* "confirmed = overlap_streak >= FRAMES_CONFIRM"
is_confirmed(streak) == streak >= FRAMES_CONFIRM

\* the trigger taken on every confirmed frame
rising_edge_every_frame(confirmed, overlapping) == confirmed

\* "if confirmed and not currently_overlapping"
rising_edge(confirmed, overlapping) == confirmed /\ ~overlapping

\* the flag left false when the clip did not start
set_overlapping_if_started(g, confirmed) ==
    IF g.raised THEN g
    ELSE [g EXCEPT !.currently_overlapping = confirmed /\ (g.fired => g.ret)]

\* "currently_overlapping = confirmed", which an exception raised by the
\* clip trigger skips
set_overlapping(g, confirmed) ==
    IF g.raised THEN g
    ELSE [g EXCEPT !.currently_overlapping = confirmed]

\* "if confirmed and not currently_overlapping: collision_count += 1", then
\* the clip trigger
count_and_trigger(g, confirmed, now, outcome) ==
    IF rising_edge(confirmed, g.currently_overlapping)
    THEN clip_trigger([g EXCEPT !.collision_count = @ + 1, !.fired = TRUE],
                      now, outcome)
    ELSE g

\* temporal confirmation of one frame, given its is_collision_now and the
\* streak that results from it
temporal_confirmation(g, streak, now, outcome) ==
    set_overlapping(
        count_and_trigger([g EXCEPT !.overlap_streak = streak],
                          is_confirmed(streak), now, outcome),
        is_confirmed(streak))

\* collision detection and temporal confirmation of one frame that has
\* detections
collision_stage(g, detections, now, outcome) ==
    temporal_confirmation(
        g,
        next_overlap_streak(g.overlap_streak, RawCollisionTest(detections)),
        now, outcome)

\* "max_pre_frames = int(max(1, int(CLIP_PRE_SECONDS * clip_fps)))"
max_pre_frames(fps) == Max(1, CLIP_PRE_SECONDS * fps)

RECURSIVE evict_late(_, _)
\* eviction that starts one entry too late
evict_late(buf, cap) ==
    IF Len(buf) > cap + 1 THEN evict_late(Tail(buf), cap) ELSE buf

RECURSIVE evict(_, _)
\* "while len(prebuffer) > max_pre_frames: prebuffer.popleft()"
evict(buf, cap) ==
    IF Len(buf) > cap THEN evict(Tail(buf), cap) ELSE buf

\* push of the frame into the pre-event buffer, then eviction
prebuffer_push(g, now, fr, fps) ==
    [g EXCEPT !.prebuffer =
        evict(Append(g.prebuffer, [ts |-> now, fr |-> fr]), max_pre_frames(fps))]

\* the statements after the face processing are not reached when an
\* exception left it
push_unless_raised(g, now, fr, fps) ==
    IF g.raised THEN g ELSE prebuffer_push(g, now, fr, fps)

\* None of the source
None == <<>>

\* the history cut to the number of faces of the frame
grow_or_cut(prev, num_faces) ==
    [k \in 1..num_faces |-> IF k <= Len(prev) THEN prev[k] ELSE None]

\* "while len(prev_rvecs) < num_faces: prev_rvecs.append(None)"
grow(prev, num_faces) ==
    prev \o [k \in 1..(num_faces - Len(prev)) |-> None]

\* both history lists brought to the number of faces of the frame
ensure_history(g, num_faces) ==
    [g EXCEPT !.prev_rvecs = grow(@, num_faces),
              !.prev_tvecs = grow(@, num_faces)]

\* a velocity computed from the stored pose whatever dt is
velocity_present_any_dt(prev, dt) == prev # None

\* "if prev_rvec is not None and dt > 1e-6", dt in ms
velocity_present(prev, dt) == prev # None /\ dt * 1000 > 1

\* one turn of the second pass, for detection dd: the velocities from the
\* stored pose of its face index, then "prev_rvecs[fi] = rvec.copy();
\* prev_tvecs[fi] = tvec.copy(); prev_time = now"
face_update(g, dd, now, dt) ==
    [g EXCEPT !.vels = Append(@, [fi |-> dd.fi,
                                  ang |-> velocity_present(g.prev_rvecs[dd.fi + 1], dt),
                                  trans |-> velocity_present(g.prev_tvecs[dd.fi + 1], dt),
                                  dt |-> dt]),
              !.prev_rvecs[dd.fi + 1] = dd.rvec,
              !.prev_tvecs[dd.fi + 1] = dd.tvec,
              !.prev_time = now]

RECURSIVE second_pass(_, _, _, _, _)
\* "for dd in detections:", from the k-th detection on
second_pass(g, detections, k, now, dt) ==
    IF k > Len(detections) THEN g
    ELSE second_pass(face_update(g, detections[k], now, dt), detections, k + 1, now, dt)

\* "if detections:": the second pass with "dt = now - prev_time" of the top
\* of the iteration, then collision detection and temporal confirmation
detections_stage(g, detections, now, outcome) ==
    IF Len(detections) > 0
    THEN collision_stage(second_pass(g, detections, 1, now, now - g.prev_time),
                         detections, now, outcome)
    ELSE g

\* "if results.multi_face_landmarks:"
faces_stage(g, scene, now, outcome) ==
    IF Len(scene) > 0
    THEN detections_stage(ensure_history(g, Len(scene)), Detections(scene), now, outcome)
    ELSE g

\* the frame pushed into the buffer before the faces are processed
loop_body_push_first(g, scene, now, fr, fps, outcome) ==
    faces_stage(prebuffer_push(g, now, fr, fps), scene, now, outcome)

\* the body of one loop iteration after a successful cap.read(): the
\* collision stage runs only when the frame has landmarks and at least one
\* posed face; the push follows unless an exception left the body
loop_body(g, scene, now, fr, fps, outcome) ==
    push_unless_raised(faces_stage(g, scene, now, outcome), now, fr, fps)

-----------------------------------------------------------------------------
(* State machine.                                                            *)

\* no sensor reader runs
SensorOff ==
    /\ reader = "none"
    /\ send_all_data = FALSE
    /\ alert_cooldown = 0
    /\ reader_pc = "off"
    /\ reader_exc = "none"
    /\ reader_clock = 0
    /\ hit_count = 0
    /\ event_count = 0
    /\ last_alert_time = 0
    /\ latest_g_force = <<>>
    /\ latest_gyroscope = <<>>
    /\ waiting_for_gyroscope = FALSE
    /\ readings = <<>>
    /\ alerts = <<>>
    /\ sends = <<>>

\* the script before its first statement: the device reports one of rates,
\* SAVE_VIDEO is one of saves
InitBase(rates, saves) ==
    /\ pc = "open"
    /\ cam_fps \in rates
    /\ save_video \in saves
    /\ out = "unbound"
    /\ exc = "none"
    /\ prev_rvecs = <<>>
    /\ prev_tvecs = <<>>
    /\ prev_time = 0
    /\ probe = <<>>
    /\ SensorOff
    /\ clip_fps = 0
    /\ clock = 0
    /\ n = 0
    /\ prebuffer = <<>>
    /\ overlap_streak = 0
    /\ currently_overlapping = FALSE
    /\ collision_count = 0
    /\ clip_active = FALSE
    /\ clip_writer = 0
    /\ sinks = <<>>
    /\ clip_attempts = 0
    /\ released = <<>>
    /\ trace = <<>>

\* SAVE_VIDEO = False unless --save-video is given
InitWith(rates) == InitBase(rates, {FALSE})

\* "cap = cv2.VideoCapture(VIDEO_SOURCE); ret, frame = cap.read()": a failed
\* first read raises RuntimeError outside the try block
OpenCamera ==
    /\ pc = "open"
    /\ \E ret \in BOOLEAN :
          /\ pc' = IF ret THEN "probe" ELSE "raised"
          /\ exc' = IF ret THEN exc ELSE "RuntimeError"
    /\ UNCHANGED <<cam_fps, clip_fps, clock, n, prebuffer, overlap_streak,
                   currently_overlapping, collision_count, clip_active,
                   clip_writer, sinks, clip_attempts, released, trace,
                   save_video, out, prev_rvecs, prev_tvecs, prev_time, probe>>
    /\ UNCHANGED sensor_vars

\* "cam_fps = cap.get(cv2.CAP_PROP_FPS); if cam_fps and cam_fps > 1.0:
\*  clip_fps = float(cam_fps)"
ProbeFps ==
    /\ pc = "probe"
    /\ clip_fps' = IF cam_fps # 0 /\ cam_fps > 1 THEN cam_fps ELSE clip_fps
    /\ pc' = "state"
    /\ UNCHANGED <<cam_fps, clock, n, prebuffer, overlap_streak,
                   currently_overlapping, collision_count, clip_active,
                   clip_writer, sinks, clip_attempts, released, trace,
                   save_video, out, exc, prev_rvecs, prev_tvecs, prev_time, probe>>
    /\ UNCHANGED sensor_vars

\* "if SAVE_VIDEO: out = cv2.VideoWriter(...)", then the assignments of the
\* pose history, of the collision state and of the clip state, "clip_fps =
\* 20.0" among them
InitState ==
    /\ pc = "state"
    /\ out' = IF save_video THEN "open" ELSE out
    /\ prev_rvecs' = <<>>
    /\ prev_tvecs' = <<>>
    /\ prev_time' = clock
    /\ collision_count' = 0
    /\ currently_overlapping' = FALSE
    /\ prebuffer' = <<>>
    /\ clip_active' = FALSE
    /\ clip_writer' = 0
    /\ clip_fps' = DEFAULT_CLIP_FPS
    /\ overlap_streak' = 0
    /\ pc' = "loop"
    /\ UNCHANGED <<cam_fps, clock, n, sinks, clip_attempts, released, trace,
                   save_video, exc, probe>>
    /\ UNCHANGED sensor_vars

\* one iteration of "while True" whose cap.read() succeeds; key: 'q' was
\* pressed at the waitKey that ends the iteration
Iterate(dt, scene, outcome, key) ==
    /\ pc = "loop"
    /\ \E g \in {loop_body(Globals, scene, clock + dt, n + 1, clip_fps, outcome)} :
          /\ clock' = clock + dt
          /\ n' = n + 1
          /\ prebuffer' = g.prebuffer
          /\ overlap_streak' = g.overlap_streak
          /\ currently_overlapping' = g.currently_overlapping
          /\ collision_count' = g.collision_count
          /\ clip_active' = g.clip_active
          /\ clip_writer' = g.clip_writer
          /\ sinks' = g.sinks
          /\ clip_attempts' = g.clip_attempts
          /\ prev_rvecs' = g.prev_rvecs
          /\ prev_tvecs' = g.prev_tvecs
          /\ prev_time' = g.prev_time
          /\ exc' = g.exc
          /\ trace' = Append(trace,
                 [ts |-> clock + dt,
                  scene |-> scene,
                  dets |-> Len(Detections(scene)),
                  raw |-> RawCollisionTest(Detections(scene)),
                  vels |-> g.vels,
                  fired |-> g.fired])
          /\ pc' = IF g.raised \/ key THEN "finally" ELSE "loop"
    /\ UNCHANGED <<cam_fps, clip_fps, released, save_video, out, probe>>
    /\ UNCHANGED sensor_vars

\* "ret, frame = cap.read(); if not ret: break"
ReadFail ==
    /\ pc = "loop"
    /\ pc' = "finally"
    /\ UNCHANGED <<cam_fps, clip_fps, clock, n, prebuffer, overlap_streak,
                   currently_overlapping, collision_count, clip_active,
                   clip_writer, sinks, clip_attempts, released, trace,
                   save_video, out, exc, prev_rvecs, prev_tvecs, prev_time, probe>>
    /\ UNCHANGED sensor_vars

\* the finally block: cap.release(), out.release() if SAVE_VIDEO, then
\* clip_writer.release() when clip_writer is not None
Finally ==
    /\ pc = "finally"
    /\ released' = released \o <<"cap">>
                     \o (IF save_video THEN <<"out">> ELSE <<>>)
                     \o (IF clip_writer # 0 THEN <<"clip_writer">> ELSE <<>>)
    /\ out' = IF save_video THEN "released" ELSE out
    /\ sinks' = IF clip_writer # 0
                THEN [sinks EXCEPT ![clip_writer].open = FALSE]
                ELSE sinks
    /\ pc' = "exit"
    /\ UNCHANGED <<cam_fps, clip_fps, clock, n, prebuffer, overlap_streak,
                   currently_overlapping, collision_count, clip_active,
                   clip_writer, clip_attempts, trace, save_video, exc,
                   prev_rvecs, prev_tvecs, prev_time, probe>>
    /\ UNCHANGED sensor_vars

\* frames at any of the spacings of DtSet, any scene
Frame ==
    /\ n < MaxFrames
    /\ \E dt \in DtSet, scene \in Scenes, outcome \in SinkOutcomes, key \in BOOLEAN :
          Iterate(dt, scene, outcome, key)

Init == InitWith(CamRates)

Next == OpenCamera \/ ProbeFps \/ InitState \/ Frame \/ ReadFail \/ Finally

Spec == Init /\ [][Next]_vars

\* the scenes of SpecDetect: each has a posed face, so that the collision
\* stage runs on every frame
DetectScenes == {<<FaceA>>, <<FaceA, FaceNear>>, <<FaceA, FaceApart>>}

\* frames at the nominal spacing, each with at least one posed face
DetectFrame ==
    /\ n < MaxDetectFrames
    /\ \E dt \in DetectDtSet, scene \in DetectScenes, outcome \in SinkOutcomes, key \in BOOLEAN :
          Iterate(dt, scene, outcome, key)

NextDetect == OpenCamera \/ ProbeFps \/ InitState \/ DetectFrame \/ ReadFail \/ Finally

SpecDetect == Init /\ [][NextDetect]_vars

\* the scenes of SpecExit: one face, two faces in contact
ExitScenes == {<<FaceA>>, <<FaceA, FaceNear>>}
ExitDtSet == {2000}

\* frames of SpecExit: every outcome of the clip, including the exceptions
ExitFrame ==
    /\ n < MaxExitFrames
    /\ \E dt \in ExitDtSet, scene \in ExitScenes, outcome \in ExitOutcomes, key \in BOOLEAN :
          Iterate(dt, scene, outcome, key)

NextExit == OpenCamera \/ ProbeFps \/ InitState \/ ExitFrame \/ ReadFail \/ Finally

\* with or without --save-video
InitExit == InitBase(CamRates, BOOLEAN)

SpecExit == InitExit /\ [][NextExit]_vars

\* the scenes of SpecPose: nobody, one face, two faces, either face failing
\* its pose solve, the second face at two poses
PoseScenes ==
    {<<>>, <<FaceA>>, <<FaceA, FaceNear>>, <<FaceA, FaceDeep>>,
     <<Unposed(FaceA), FaceNear>>, <<FaceA, Unposed(FaceNear)>>}
\* time between two captures, ms; 0: time.time() returned the same value
PoseDtSet == {0, 50}

\* frames of SpecPose; every sink opens, the stop key is not pressed
PoseFrame ==
    /\ n < MaxPoseFrames
    /\ \E dt \in PoseDtSet, scene \in PoseScenes : Iterate(dt, scene, "opened", FALSE)

NextPose == OpenCamera \/ ProbeFps \/ InitState \/ PoseFrame \/ ReadFail \/ Finally

SpecPose == Init /\ [][NextPose]_vars

\* a pure function called on its own, outside the loop: compute_iou on two
\* boxes, or the raw collision test on the faces of one frame
InitPure ==
    /\ pc = "call"
    /\ \/ probe \in {[fn |-> "compute_iou", args |-> <<a, b>>, result |-> None] :
                         a \in Boxes, b \in Boxes}
       \/ probe \in {[fn |-> "is_collision_now", args |-> scene, result |-> None] :
                         scene \in PureScenes}
    /\ cam_fps = 0
    /\ clip_fps = 0
    /\ clock = 0
    /\ n = 0
    /\ prebuffer = <<>>
    /\ overlap_streak = 0
    /\ currently_overlapping = FALSE
    /\ collision_count = 0
    /\ clip_active = FALSE
    /\ clip_writer = 0
    /\ sinks = <<>>
    /\ clip_attempts = 0
    /\ released = <<>>
    /\ trace = <<>>
    /\ save_video = FALSE
    /\ out = "unbound"
    /\ exc = "none"
    /\ prev_rvecs = <<>>
    /\ prev_tvecs = <<>>
    /\ prev_time = 0
    /\ SensorOff

\* compute_iou(box_a, box_b)
CallComputeIou ==
    /\ pc = "call"
    /\ probe.fn = "compute_iou"
    /\ probe' = [probe EXCEPT !.result = compute_iou(probe.args[1], probe.args[2])]
    /\ pc' = "returned"
    /\ UNCHANGED <<cam_fps, clip_fps, clock, n, prebuffer, overlap_streak,
                   currently_overlapping, collision_count, clip_active,
                   clip_writer, sinks, clip_attempts, released, trace,
                   save_video, out, exc, prev_rvecs, prev_tvecs, prev_time>>
    /\ UNCHANGED sensor_vars

\* the first pass and the collision detection of one frame: is_collision_now
CallRawTest ==
    /\ pc = "call"
    /\ probe.fn = "is_collision_now"
    /\ probe' = [probe EXCEPT !.result = RawCollisionTest(Detections(probe.args))]
    /\ pc' = "returned"
    /\ UNCHANGED <<cam_fps, clip_fps, clock, n, prebuffer, overlap_streak,
                   currently_overlapping, collision_count, clip_active,
                   clip_writer, sinks, clip_attempts, released, trace,
                   save_video, out, exc, prev_rvecs, prev_tvecs, prev_time>>
    /\ UNCHANGED sensor_vars

NextPure == CallComputeIou \/ CallRawTest

SpecPure == InitPure /\ [][NextPure]_vars

\* a device that reports its rate and delivers frames at exactly that rate,
\* for window x rate + ExtraFrames frames; nobody is in view
RingFrame ==
    /\ n < CLIP_PRE_SECONDS * cam_fps + ExtraFrames
    /\ Iterate(1000 \div cam_fps, <<>>, "opened", FALSE)

NextRing == OpenCamera \/ ProbeFps \/ InitState \/ RingFrame \/ ReadFail \/ Finally

InitRing == InitWith(RingRates)

SpecRing == InitRing /\ [][NextRing]_vars

-----------------------------------------------------------------------------
(* The sensor readers: src/accelerometer_reader_clean.py ("single": G-force  *)
(* lines only) and src/handle_serial/accelerometer_reader_clean.py          *)
(* ("paired": a G-force line is processed when the gyroscope line that      *)
(* follows it arrives).  Time is in whole seconds.  A line of the serial    *)
(* port is given by what the regular expressions find in it: text "MAG"     *)
(* for 'MAG:\s*(-?\d+)', "MAG_GY" for 'MAG_GY:\s*(-?\d+)', with the number  *)
(* as value, and "other" for a line neither matches or an empty read.       *)
(* src/accelerometer_reader.py is left out: the file does not compile       *)
(* (IndentationError at line 107), so none of its statements ever runs.     *)

\* defaults of the readers when config.py is missing
THRESHOLD == 2
THRESHOLD_G == 2
THRESHOLD_GYRO == 250
MAGNITUDE_SCALE == 100
GYROSCOPE_SCALE == 100
\* "time.sleep(5)" after an alert
ALERT_PAUSE == 5
\* magnitude of the event test_database_connection sends
TEST_MAGNITUDE == 350

\* ALERT_COOLDOWN: the default 5, or a longer one set in config.py
CooldownSettings == {5, 8}
\* time.time() when main() starts: seconds since 1970, far above any cooldown
StartTimes == {100}
\* seconds between two reads of the serial port
LineDtSet == {0, 3}

\* lines the sensor may send: 1.5 G, 3 G, 10 deg/s, 300 deg/s, anything else
SerialLines ==
    {[text |-> "MAG", value |-> 150], [text |-> "MAG", value |-> 300],
     [text |-> "MAG_GY", value |-> 1000], [text |-> "MAG_GY", value |-> 30000],
     [text |-> "other", value |-> 0]}

\* what requests.post does: a response with a status code, or an exception
HttpOutcomes ==
    {[status |-> 200, exc |-> "none"], [status |-> 201, exc |-> "none"],
     [status |-> 500, exc |-> "none"], [status |-> 0, exc |-> "ConnectionError"],
     [status |-> 0, exc |-> "Timeout"], [status |-> 0, exc |-> "ValueError"]}

\* the outcomes SpecSensor draws from: the event stored, the server unreachable
LoopOutcomes ==
    {[status |-> 201, exc |-> "none"], [status |-> 0, exc |-> "ConnectionError"]}

\* subclasses of requests.exceptions.RequestException
RequestExceptions == {"ConnectionError", "Timeout"}

\* parse_accel_data(line): <<value>>, or <<>> for None
parse_accel_data(line) ==
    IF line.text = "MAG" THEN <<line.value>> ELSE <<>>

\* parse_sensor_data(line): <<data_type, value>>, or <<>> for (None, None)
parse_sensor_data(line) ==
    IF line.text = "MAG" THEN <<"g_force", line.value>>
    ELSE IF line.text = "MAG_GY" THEN <<"gyroscope", line.value>>
    ELSE <<>>

\* success for status 200 only
post_result_200_only(response) ==
    IF response.exc = "none"
    THEN [ret |-> response.status = 200, raised |-> FALSE]
    ELSE [ret |-> FALSE, raised |-> FALSE]

\* the try block of send_to_database: the value returned for what
\* requests.post did, and whether an exception leaves the function
post_result(response) ==
    IF response.exc = "none"
    THEN [ret |-> response.status \in {200, 201}, raised |-> FALSE]
    ELSE IF response.exc = "ConnectionError"
    THEN [ret |-> FALSE, raised |-> FALSE]
    ELSE IF response.exc \in RequestExceptions
    THEN [ret |-> FALSE, raised |-> FALSE]
    ELSE [ret |-> FALSE, raised |-> FALSE]

\* the locals and counters of main() as one record; should_send and raised
\* belong to the line under way
ReaderState ==
    [hit_count |-> hit_count,
     event_count |-> event_count,
     last_alert_time |-> last_alert_time,
     latest_g_force |-> latest_g_force,
     latest_gyroscope |-> latest_gyroscope,
     waiting_for_gyroscope |-> waiting_for_gyroscope,
     clock |-> reader_clock,
     readings |-> readings,
     alerts |-> alerts,
     sends |-> sends,
     should_send |-> FALSE,
     raised |-> FALSE]

\* send_to_database(magnitude, hit_count[, gyro_data]) and "if success:
\* event_count += 1"; res is post_result of the response
send_to_database(r, magnitude, with_gyro, gyro_data, response, res) ==
    [r EXCEPT !.sends = Append(@, [magnitude |-> magnitude,
                                   hit_count |-> r.hit_count,
                                   with_gyro |-> with_gyro,
                                   gyro_data |-> gyro_data,
                                   response |-> response,
                                   ret |-> res.ret,
                                   at |-> r.clock]),
              !.event_count = IF res.ret THEN @ + 1 ELSE @,
              !.raised = res.raised]

\* "magnitude_g > THRESHOLD", magnitude_g = raw / MAGNITUDE_SCALE
g_threshold_exceeded(raw) == raw > THRESHOLD_G * MAGNITUDE_SCALE

\* "abs(gyro_value) > THRESHOLD_GYRO", gyro_value = raw / GYROSCOPE_SCALE
ang_threshold_exceeded(raw) == Abs(raw) > THRESHOLD_GYRO * GYROSCOPE_SCALE

\* the cooldown elapsed only after more than ALERT_COOLDOWN seconds
cooldown_elapsed_strict(r, cooldown) ==
    r.clock - r.last_alert_time > cooldown

\* "current_time - last_alert_time >= ALERT_COOLDOWN"
cooldown_elapsed(r, cooldown) ==
    r.clock - r.last_alert_time >= cooldown

\* the alert branch: should_send, last_alert_time = current_time, the spoken
\* alert and "time.sleep(5)"
g_force_alert(r) ==
    [r EXCEPT !.should_send = TRUE,
              !.last_alert_time = r.clock,
              !.alerts = Append(@, [hit |-> r.hit_count, at |-> r.clock]),
              !.clock = @ + ALERT_PAUSE]

\* "if should_send: send_to_database(magnitude_raw, hit_count)"
single_send(r, raw, response) ==
    IF r.should_send
    THEN send_to_database(r, raw, FALSE, 0, response, post_result(response))
    ELSE r

\* the threshold, the cooldown and SEND_ALL_DATA of the single reader
single_decide(r, raw, send_all, cooldown) ==
    IF raw > THRESHOLD * MAGNITUDE_SCALE
    THEN IF cooldown_elapsed(r, cooldown) THEN g_force_alert(r) ELSE r
    ELSE IF send_all THEN [r EXCEPT !.should_send = TRUE] ELSE r

\* a line read and what it parsed to, appended to the log
log_line(r, kind, value) ==
    [r EXCEPT !.readings = Append(@, [kind |-> kind, value |-> value,
                                      at |-> r.clock, hit |-> r.hit_count])]

\* "hit_count += 1"
count_hit(r) == [r EXCEPT !.hit_count = @ + 1]

\* one iteration of the loop of the single reader
single_line(r, line, send_all, cooldown, response) ==
    IF Len(parse_accel_data(line)) > 0
    THEN single_send(
             single_decide(log_line(count_hit(r), "g_force", line.value),
                           line.value, send_all, cooldown),
             line.value, response)
    ELSE log_line(r, "none", 0)

\* "if g_threshold_exceeded:" of the paired reader
g_force_stage(r, cooldown) ==
    IF g_threshold_exceeded(r.latest_g_force) /\ cooldown_elapsed(r, cooldown)
    THEN g_force_alert(r)
    ELSE r

\* "if ang_threshold_exceeded: should_send = True", the spoken alert and
\* "time.sleep(5)"
angular_stage(r, gyro_raw) ==
    IF ang_threshold_exceeded(gyro_raw)
    THEN [r EXCEPT !.should_send = TRUE, !.clock = @ + ALERT_PAUSE]
    ELSE r

\* "if not g_threshold_exceeded and not ang_threshold_exceeded: if
\* SEND_ALL_DATA: should_send = True"
normal_stage(r, gyro_raw, send_all) ==
    IF ~g_threshold_exceeded(r.latest_g_force) /\ ~ang_threshold_exceeded(gyro_raw)
       /\ send_all
    THEN [r EXCEPT !.should_send = TRUE]
    ELSE r

\* "if should_send: send_to_database(latest_g_force, hit_count, raw_value)"
paired_send(r, gyro_raw, response) ==
    IF r.should_send
    THEN send_to_database(r, r.latest_g_force, TRUE, gyro_raw, response,
                          post_result(response))
    ELSE r

\* the pair of a G-force reading and the gyroscope reading that followed it
paired_process(r, gyro_raw, send_all, cooldown, response) ==
    paired_send(
        normal_stage(angular_stage(g_force_stage(r, cooldown), gyro_raw),
                     gyro_raw, send_all),
        gyro_raw, response)

\* the G-force branch: the reading is kept until a gyroscope line arrives
keep_g_force(r, raw) ==
    [r EXCEPT !.hit_count = @ + 1,
              !.latest_g_force = raw,
              !.waiting_for_gyroscope = TRUE]

\* the gyroscope branch
take_gyroscope(r, raw) ==
    [r EXCEPT !.latest_gyroscope = raw, !.waiting_for_gyroscope = FALSE]

\* one iteration of the loop of the paired reader, parsed being
\* parse_sensor_data(line)
paired_parsed(r, parsed, send_all, cooldown, response) ==
    IF Len(parsed) = 0 THEN log_line(r, "none", 0)
    ELSE IF parsed[1] = "g_force"
    THEN log_line(keep_g_force(r, parsed[2]), "g_force", parsed[2])
    ELSE IF r.waiting_for_gyroscope
    THEN paired_process(log_line(take_gyroscope(r, parsed[2]), "gyroscope", parsed[2]),
                        parsed[2], send_all, cooldown, response)
    ELSE log_line(r, "unpaired", parsed[2])

paired_line(r, line, send_all, cooldown, response) ==
    paired_parsed(r, parse_sensor_data(line), send_all, cooldown, response)

\* no detector runs
DetectorOff ==
    /\ pc = "off"
    /\ cam_fps = 0
    /\ clip_fps = 0
    /\ clock = 0
    /\ n = 0
    /\ prebuffer = <<>>
    /\ overlap_streak = 0
    /\ currently_overlapping = FALSE
    /\ collision_count = 0
    /\ clip_active = FALSE
    /\ clip_writer = 0
    /\ sinks = <<>>
    /\ clip_attempts = 0
    /\ released = <<>>
    /\ trace = <<>>
    /\ save_video = FALSE
    /\ out = "unbound"
    /\ exc = "none"
    /\ prev_rvecs = <<>>
    /\ prev_tvecs = <<>>
    /\ prev_time = 0
    /\ probe = <<>>

\* one of the two readers, with the configuration it imported
InitSensor ==
    /\ DetectorOff
    /\ reader \in {"single", "paired"}
    /\ send_all_data \in BOOLEAN
    /\ alert_cooldown \in CooldownSettings
    /\ reader_pc = "start"
    /\ reader_exc = "none"
    /\ reader_clock \in StartTimes
    /\ hit_count = 0
    /\ event_count = 0
    /\ last_alert_time = 0
    /\ latest_g_force = <<>>
    /\ latest_gyroscope = <<>>
    /\ waiting_for_gyroscope = FALSE
    /\ readings = <<>>
    /\ alerts = <<>>
    /\ sends = <<>>

\* main() up to the loop: test_database_connection() sends a test event and
\* main returns when it fails; main returns when no serial port opens
StartReader(response, serial_ok) ==
    /\ reader_pc = "start"
    /\ \E r \in {send_to_database(ReaderState, TEST_MAGNITUDE, FALSE, 0, response,
                                 post_result(response))} :
          /\ sends' = r.sends
          /\ reader_exc' = IF r.raised THEN response.exc ELSE reader_exc
          /\ reader_pc' = IF r.raised \/ ~r.sends[Len(r.sends)].ret \/ ~serial_ok
                          THEN "exit" ELSE "listen"
    /\ hit_count' = 0
    /\ event_count' = 0
    /\ last_alert_time' = 0
    /\ latest_g_force' = <<>>
    /\ latest_gyroscope' = <<>>
    /\ waiting_for_gyroscope' = FALSE
    /\ UNCHANGED <<reader, send_all_data, alert_cooldown, reader_clock, readings, alerts>>
    /\ UNCHANGED detector_vars

\* one iteration of "while True": ser.readline() returns line, dt seconds
\* after the previous iteration ended
ReadLine(line, dt, response) ==
    /\ reader_pc = "listen"
    /\ \E r \in {IF reader = "single"
                 THEN single_line([ReaderState EXCEPT !.clock = @ + dt], line,
                                  send_all_data, alert_cooldown, response)
                 ELSE paired_line([ReaderState EXCEPT !.clock = @ + dt], line,
                                  send_all_data, alert_cooldown, response)} :
          /\ hit_count' = r.hit_count
          /\ event_count' = r.event_count
          /\ last_alert_time' = r.last_alert_time
          /\ latest_g_force' = r.latest_g_force
          /\ latest_gyroscope' = r.latest_gyroscope
          /\ waiting_for_gyroscope' = r.waiting_for_gyroscope
          /\ reader_clock' = r.clock
          /\ readings' = r.readings
          /\ alerts' = r.alerts
          /\ sends' = r.sends
          /\ reader_exc' = IF r.raised THEN response.exc ELSE reader_exc
          /\ reader_pc' = IF r.raised THEN "exit" ELSE "listen"
    /\ UNCHANGED <<reader, send_all_data, alert_cooldown>>
    /\ UNCHANGED detector_vars

\* Ctrl+C: the session summary, then "ser.close()"
ReaderInterrupt ==
    /\ reader_pc = "listen"
    /\ reader_pc' = "exit"
    /\ UNCHANGED <<reader, send_all_data, alert_cooldown, reader_exc, reader_clock,
                   hit_count, event_count, last_alert_time, latest_g_force,
                   latest_gyroscope, waiting_for_gyroscope, readings, alerts, sends>>
    /\ UNCHANGED detector_vars

\* the readers with the two outcomes of LoopOutcomes
SensorStart ==
    \E response \in LoopOutcomes, serial_ok \in BOOLEAN : StartReader(response, serial_ok)

SensorLine ==
    /\ Len(readings) < MaxLines
    /\ \E line \in SerialLines, dt \in LineDtSet, response \in LoopOutcomes :
          ReadLine(line, dt, response)

NextSensor == SensorStart \/ SensorLine \/ ReaderInterrupt

SpecSensor == InitSensor /\ [][NextSensor]_vars

\* the readers with every outcome of requests.post
SendStart ==
    \E response \in HttpOutcomes, serial_ok \in BOOLEAN : StartReader(response, serial_ok)

SendLine ==
    /\ Len(readings) < MaxSendLines
    /\ \E line \in SerialLines, dt \in LineDtSet, response \in HttpOutcomes :
          ReadLine(line, dt, response)

NextSend == SendStart \/ SendLine \/ ReaderInterrupt

SpecSend == InitSensor /\ [][NextSend]_vars

-----------------------------------------------------------------------------
(* Properties.  The raw collision test of a captured frame is                *)
(* RawCollisionTest of its detections, which is false for a frame with       *)
(* fewer than two posed faces; trace[k] is the k-th captured frame.          *)

Frames == 1..Len(trace)

\* frames on which the count increment and the clip trigger fired
FiredFrames == {k \in Frames : trace[k].fired}

RECURSIVE RunLen(_)
\* length of the run of consecutive raw-true frames that ends with frame k
RunLen(k) ==
    IF k = 0 THEN 0
    ELSE IF trace[k].raw THEN 1 + RunLen(k - 1)
    ELSE 0

\* frames on which a run of raw-true frames reaches FRAMES_CONFIRM: one per
\* contact episode
EpisodeFrames == {k \in Frames : RunLen(k) = FRAMES_CONFIRM}

\* C1 (as claimed): the count increment and the clip trigger fire exactly
\* once per contact episode, a frame with fewer than two faces ending the
\* episode like any other raw-false frame: they fired on exactly the frames
\* on which a run of raw-true frames reached FRAMES_CONFIRM, and the counter
\* and the number of clip triggers equal the number of episodes.
C1_OncePerEpisode ==
    /\ FiredFrames = EpisodeFrames
    /\ collision_count = Cardinality(EpisodeFrames)
    /\ clip_attempts = Cardinality(EpisodeFrames)

C2_RawSequence == <<FALSE, TRUE, TRUE, FALSE, TRUE, TRUE, TRUE>>

\* the first frames of the run evaluated the raw test (each had a posed face)
\* with the results C2_RawSequence
C2_SequenceSeen ==
    /\ Len(trace) = Len(C2_RawSequence)
    /\ \A k \in Frames : trace[k].dets >= 1 /\ trace[k].raw = C2_RawSequence[k]

\* C2 (as claimed): for the sequence [false, true, true, false, true, true,
\* true] of raw test results with FRAMES_CONFIRM = 2, the confirmation fires
\* at the 0-based indices 2 and 6 and nowhere else.
C2_SecondAtIndexSix ==
    C2_SequenceSeen => {k - 1 : k \in FiredFrames} = {2, 6}

\* C2 (amended): for that sequence the confirmation fires at the 0-based
\* indices 2 and 5 and nowhere else: the streak restarted by the false at
\* index 3 reaches FRAMES_CONFIRM on the second true frame after it.
C2_ConfirmationSequence ==
    C2_SequenceSeen => {k - 1 : k \in FiredFrames} = {2, 5}

C2_Witness ==
    /\ C2_SequenceSeen
    /\ trace[3].fired /\ trace[6].fired /\ ~trace[7].fired
    /\ collision_count = 2

\* C3 (as claimed): when a confirmation fires on frame k, the raw test was
\* true on each of the FRAMES_CONFIRM captured frames k-FRAMES_CONFIRM+1..k.
C3_UnbrokenRun ==
    \A k \in FiredFrames :
        \A j \in (k - FRAMES_CONFIRM + 1)..k : j >= 1 /\ trace[j].raw

\* C4 (as claimed): after a captured frame with fewer than two posed faces
\* overlap_streak is 0 and currently_overlapping is false.
C4_ResetBelowTwoFaces ==
    (Len(trace) > 0 /\ trace[Len(trace)].dets < 2)
        => (overlap_streak = 0 /\ ~currently_overlapping)

\* the run so far: three frames, each with two posed faces in contact
C5_ThreeContactFrames ==
    /\ Len(trace) = 3
    /\ \A k \in Frames : trace[k].dets = 2 /\ trace[k].raw

\* C5: from collision_count = 0 and an idle detector, three consecutive
\* frames with two faces in contact yield one confirmed collision:
\* collision_count is 1 and _start_collision_clip was called once.
C5_OneCollision ==
    C5_ThreeContactFrames =>
        /\ collision_count = 1
        /\ clip_attempts = 1
        /\ Cardinality(FiredFrames) = 1

C5_Witness ==
    /\ C5_ThreeContactFrames
    /\ trace[2].fired
    /\ collision_count = 1
    /\ currently_overlapping

\* the buffer is empty or its newest and oldest timestamps are at most
\* CLIP_PRE_SECONDS apart
BufferWithinWindow ==
    prebuffer = <<>>
    \/ prebuffer[Len(prebuffer)].ts - prebuffer[1].ts <= CLIP_PRE_SECONDS * 1000

BufferedAtClipRate ==
    \A i \in 1..(Len(prebuffer) - 1) :
        (prebuffer[i + 1].ts - prebuffer[i].ts) * clip_fps <= 1000

C7_FixedRateLeavesWindow ==
    n = CLIP_PRE_SECONDS * cam_fps + ExtraFrames =>
        /\ Len(prebuffer) = CLIP_PRE_SECONDS * cam_fps
        /\ \A i \in 1..Len(prebuffer) : prebuffer[i].fr = n - Len(prebuffer) + i

\* C8 (as claimed): the frame rate the loop uses for the buffer capacity and
\* for the clips is the rate the device reports when it reports one (above
\* 1.0) and the fallback 20.0 only when it reports none.
C8_EffectiveFrameRate ==
    pc = "loop" =>
        clip_fps = (IF cam_fps > 1 THEN cam_fps ELSE DEFAULT_CLIP_FPS)

\* the captured frame on which sink i was opened
TriggerFrame(i) ==
    CHOOSE k \in Frames : trace[k].fired /\ trace[k].ts = sinks[i].at

\* the frames captured before frame k that the buffer still held when frame
\* k was processed and whose timestamp lies in [t - CLIP_PRE_SECONDS, t]
WindowFrames(k, t) ==
    {j \in 1..(k - 1) : /\ j >= k - max_pre_frames(clip_fps)
                        /\ t - CLIP_PRE_SECONDS * 1000 <= trace[j].ts
                        /\ trace[j].ts <= t}

IsAscending(seq) == \A i \in 1..(Len(seq) - 1) : seq[i] < seq[i + 1]

\* C9: the frames written on a confirmation at time t whose sink opens are
\* exactly the buffered entries with t - CLIP_PRE_SECONDS <= ts <= t, in the
\* order they were buffered, and the sink is closed before the next capture.
C9_ClipIsWindow ==
    /\ \A i \in 1..Len(sinks) :
          /\ IsAscending(sinks[i].frames)
          /\ {sinks[i].frames[x] : x \in 1..Len(sinks[i].frames)}
                = WindowFrames(TriggerFrame(i), sinks[i].at)
    /\ pc = "loop" =>
          /\ \A i \in 1..Len(sinks) : ~sinks[i].open
          /\ clip_writer = 0
          /\ ~clip_active

\* a clip that holds the frame captured exactly CLIP_PRE_SECONDS before the
\* confirmation, and the loop ready for the next capture
C9_Witness ==
    /\ pc = "loop"
    /\ \E i \in 1..Len(sinks) :
          /\ ~sinks[i].open
          /\ \E x \in 1..Len(sinks[i].frames) :
                trace[sinks[i].frames[x]].ts = sinks[i].at - CLIP_PRE_SECONDS * 1000

\* C10: every frame written into a clip was captured strictly before the
\* frame on which the confirmation fired.
C10_OnlyEarlierFrames ==
    \A i \in 1..Len(sinks) :
        \A x \in 1..Len(sinks[i].frames) :
            /\ sinks[i].frames[x] < TriggerFrame(i)
            /\ trace[sinks[i].frames[x]].ts < sinks[i].at

\* a clip with the frames captured before the confirming frame, one more
\* frame captured since
C10_Witness ==
    \E i \in 1..Len(sinks) :
        /\ Len(sinks[i].frames) >= 2
        /\ TriggerFrame(i) < n
        /\ Len(prebuffer) > Len(sinks[i].frames)

\* sinks that are open
OpenSinks == {i \in 1..Len(sinks) : sinks[i].open}

\* C11: at most one clip sink is open at any time, and whenever the loop is
\* about to capture a frame clip_active is false and clip_writer is None,
\* whatever the confirmations and the outcomes of opening the sink were.
C11_OneSinkAtATime ==
    /\ Cardinality(OpenSinks) <= 1
    /\ pc = "loop" => (~clip_active /\ clip_writer = 0)

\* two confirmations whose sinks opened, a third frame boundary reached
C11_Witness ==
    /\ pc = "loop"
    /\ Len(sinks) = 2
    /\ collision_count = 2
    /\ OpenSinks = {}
    /\ ~clip_active /\ clip_writer = 0

\* confirmations for which no sink was opened
FailedOpenFrames ==
    {k \in FiredFrames : \A i \in 1..Len(sinks) : sinks[i].at # trace[k].ts}

\* C12: a confirmation whose sink cannot be opened is counted once, writes
\* no frame, leaves clip_active false, and no clip is attempted again on the
\* later frames of the same run of raw-true frames.
C12_CountedNotRetried ==
    /\ collision_count = Cardinality(FiredFrames)
    /\ clip_attempts = Cardinality(FiredFrames)
    /\ Len(sinks) = Cardinality(FiredFrames \ FailedOpenFrames)
    /\ FailedOpenFrames # {} /\ pc = "loop" => ~clip_active
    /\ \A k \in FailedOpenFrames :
          \A j \in (k + 1)..Len(trace) :
              (\A m \in k..j : trace[m].raw) => ~trace[j].fired

\* four frames in contact, the confirmation on the second one without a
\* sink, the loop still running
C12_Witness ==
    /\ pc = "loop"
    /\ Len(trace) = 4
    /\ \A k \in Frames : trace[k].raw
    /\ FailedOpenFrames = {2}
    /\ collision_count = 1
    /\ clip_attempts = 1
    /\ sinks = <<>>

\* C13 (as claimed): a confirmation whose clip cannot be produced because
\* the output location is unwritable never ends the frame loop: no exception
\* leaves the iteration.
C13_FailedClipKeepsLooping ==
    (Len(trace) > 0 /\ Len(trace) \in FailedOpenFrames) => exc = "none"

\* C14 (as claimed): in the teardown the clip sink is released before the
\* capture device.
C14_ClipSinkBeforeCapture ==
    \A i \in 1..Len(released) : \A j \in 1..Len(released) :
        (released[i] = "cap" /\ released[j] = "clip_writer") => j < i

\* C15 (as claimed): when the program has ended, on any path, the capture
\* device is released, no clip sink that opened is still open and the
\* full-session sink is not open.
C15_AllReleasedAtExit ==
    pc \in {"exit", "raised"} =>
        /\ \E i \in 1..Len(released) : released[i] = "cap"
        /\ OpenSinks = {}
        /\ out # "open"

\* face indices whose pose solve succeeded on frame k
PosedIn(k) == {i - 1 : i \in {i \in 1..Len(trace[k].scene) : trace[k].scene[i].ok}}

\* the latest of the frames 1..k on which face index fi was posed, 0 if none
LastPosed(k, fi) ==
    LET P == {j \in 1..k : fi \in PosedIn(j)}
    IN IF P = {} THEN 0 ELSE CHOOSE j \in P : \A i \in P : i <= j

\* face indices for which frame k computed velocities and stored a pose
ProcessedIn(k) == {trace[k].vels[x].fi : x \in 1..Len(trace[k].vels)}

\* the largest number of faces a frame has returned so far
MostFaces ==
    IF trace = <<>> THEN 0
    ELSE CHOOSE c \in {Len(trace[k].scene) : k \in Frames} :
             \A k \in Frames : Len(trace[k].scene) <= c

LoopDt(k) ==
    LET P == {j \in 1..(k - 1) : trace[j].dets > 0}
    IN IF P = {} THEN trace[k].ts
       ELSE trace[k].ts - trace[CHOOSE j \in P : \A i \in P : i <= j].ts

\* C17: for a face slot both velocities are absent exactly when the slot has
\* no stored previous pose or dt <= 1e-6 s, and both are present otherwise.
C17_VelocityPresence ==
    \A k \in Frames : \A x \in 1..Len(trace[k].vels) :
        /\ trace[k].vels[x].dt = LoopDt(k)
        /\ trace[k].vels[x].ang = trace[k].vels[x].trans
        /\ ~trace[k].vels[x].ang
              <=> (LastPosed(k - 1, trace[k].vels[x].fi) = 0 \/ LoopDt(k) * 1000 <= 1)

\* a slot with its first sighting, then both velocities, then none because
\* the clock did not advance
C17_Witness ==
    /\ Len(trace) = 3
    /\ \A k \in Frames : 0 \in ProcessedIn(k)
    /\ ~trace[1].vels[1].ang /\ ~trace[1].vels[1].trans
    /\ trace[2].vels[1].ang /\ trace[2].vels[1].trans
    /\ trace[3].ts = trace[2].ts
    /\ ~trace[3].vels[1].ang /\ ~trace[3].vels[1].trans

\* C18 (as claimed): a velocity computed for a slot is divided by the time
\* between the current frame and the frame on which the slot's stored pose
\* was computed.
C18_DtSinceStoredPose ==
    \A k \in Frames : \A x \in 1..Len(trace[k].vels) :
        (trace[k].vels[x].ang \/ trace[k].vels[x].trans) =>
            trace[k].vels[x].dt
                = trace[k].ts - trace[LastPosed(k - 1, trace[k].vels[x].fi)].ts

\* indices of the faces of scene that have a pose
PosedFaces(scene) == {i \in 1..Len(scene) : scene[i].ok}

\* pairs of posed faces of scene
PosedPairs(scene) == {p \in PosedFaces(scene) \X PosedFaces(scene) : p[1] < p[2]}

PairIou(scene, p) == compute_iou(scene[p[1]].bbox, scene[p[2]].bbox)

\* pairs of posed faces whose hitbox IoU is the largest of the frame
MaxIouPairs(scene) ==
    {p \in PosedPairs(scene) :
        \A q \in PosedPairs(scene) : FracGeq(PairIou(scene, p), PairIou(scene, q))}

\* squared Euclidean distance of two translation vectors
SquaredDistance(t1, t2) ==
    (t1[1] - t2[1]) * (t1[1] - t2[1]) + (t1[2] - t2[2]) * (t1[2] - t2[2])
        + (t1[3] - t2[3]) * (t1[3] - t2[3])

\* the pair is within both 3D bounds
WithinBounds(scene, p) ==
    /\ Abs(scene[p[1]].tvec[3] - scene[p[2]].tvec[3]) < DEPTH_DIFF_MAX
    /\ SquaredDistance(scene[p[1]].tvec, scene[p[2]].tvec) < DIST_3D_MAX * DIST_3D_MAX

\* the raw collision test has returned
RawTestReturned == pc = "returned" /\ probe.fn = "is_collision_now"

\* C19: the raw collision test of a frame is true if and only if at least
\* two faces have a pose, the largest pairwise hitbox IoU is at or above
\* COLLISION_IOU_THRESHOLD, and for the pair with that IoU the depth
\* difference is below DEPTH_DIFF_MAX and the 3D distance below DIST_3D_MAX.
C19_RawTestIff ==
    RawTestReturned =>
        (probe.result
            <=> /\ Cardinality(PosedFaces(probe.args)) >= 2
                /\ \E p \in MaxIouPairs(probe.args) :
                      /\ FracGeq(PairIou(probe.args, p), COLLISION_IOU_THRESHOLD)
                      /\ WithinBounds(probe.args, p))

\* two posed faces whose IoU is exactly the threshold, within both bounds:
\* the test is true
C19_Witness ==
    /\ RawTestReturned
    /\ probe.args = <<FaceA, FaceEdge>>
    /\ PairIou(probe.args, <<1, 2>>) = <<10, 200>>
    /\ probe.result

\* compute_iou has returned
IouReturned == pc = "returned" /\ probe.fn = "compute_iou"

BoxArea(b) == (b[3] - b[1]) * (b[4] - b[2])

\* the rectangles have no point in common
Disjoint(a, b) == a[3] < b[1] \/ b[3] < a[1] \/ a[4] < b[2] \/ b[4] < a[2]

\* b is the square a moved by half its side along axis d (1: x, 2: y)
HalfOffset(a, b, d) ==
    /\ a[3] - a[1] = a[4] - a[2]
    /\ a[3] - a[1] > 0
    /\ b[3] - b[1] = a[3] - a[1]
    /\ b[4] - b[2] = a[4] - a[2]
    /\ 2 * Abs(b[d] - a[d]) = a[3] - a[1]
    /\ b[3 - d] = a[3 - d]

\* the results for disjoint rectangles and for half-offset squares
DisjointAndHalfOffset ==
    /\ Disjoint(probe.args[1], probe.args[2]) => probe.result[1] = 0
    /\ \A d \in {1, 2} :
          HalfOffset(probe.args[1], probe.args[2], d)
              => 3 * probe.result[1] = probe.result[2]

\* C20 (as claimed): compute_iou returns 1.0 for any two identical
\* rectangles, 0.0 for any two disjoint rectangles and 1/3 for two equal
\* squares offset by half their side along one axis.
C20_IouValues ==
    IouReturned =>
        /\ probe.args[1] = probe.args[2] => probe.result[1] = probe.result[2]
        /\ DisjointAndHalfOffset

\* C20 (amended): compute_iou returns 1.0 for any two identical rectangles
\* of positive area, 0.0 for any two disjoint rectangles and 1/3 for two
\* equal squares offset by half their side along one axis.
C20_IouValuesPositiveArea ==
    IouReturned =>
        /\ (probe.args[1] = probe.args[2] /\ BoxArea(probe.args[1]) > 0)
              => probe.result[1] = probe.result[2]
        /\ DisjointAndHalfOffset

\* two identical rectangles of positive area: inter = union
C20_Witness ==
    /\ IouReturned
    /\ probe.args[1] = probe.args[2]
    /\ BoxArea(probe.args[1]) > 0
    /\ probe.result = <<BoxArea(probe.args[1]), BoxArea(probe.args[1])>>

\* C21: the lengths of prev_rvecs and prev_tvecs are equal, equal to the
\* largest number of faces a single frame has returned so far, at most 2,
\* and no step makes them smaller.
C21_HistoryNeverShrinks ==
    /\ [](/\ Len(prev_rvecs) = Len(prev_tvecs)
          /\ pc \in {"loop", "finally", "exit"} => Len(prev_rvecs) = MostFaces
          /\ Len(prev_rvecs) <= 2)
    /\ [][Len(prev_rvecs') >= Len(prev_rvecs) /\ Len(prev_tvecs') >= Len(prev_tvecs)]_vars

\* two faces seen on an earlier frame, fewer on the latest one: both lists
\* still have two entries
C21_Witness ==
    /\ Len(trace) >= 2
    /\ Len(trace[Len(trace)].scene) < 2
    /\ Len(prev_rvecs) = 2 /\ Len(prev_tvecs) = 2

\* C22 (as claimed): once frames have been captured for CLIP_PRE_SECONDS,
\* the buffer holds every frame captured less than CLIP_PRE_SECONDS ago,
\* whatever the capture rate.
C22_BufferCoversWindow ==
    (pc = "loop" /\ n >= 1 /\ clock - trace[1].ts >= CLIP_PRE_SECONDS * 1000) =>
        \A k \in Frames :
            trace[k].ts > clock - CLIP_PRE_SECONDS * 1000
                => \E x \in 1..Len(prebuffer) : prebuffer[x].fr = k

\* C28 (as claimed): two distinct confirmations whose sinks opened never
\* write to the same clip path.
C28_DistinctClipPaths ==
    \A i \in 1..Len(sinks) : \A j \in 1..Len(sinks) :
        i # j => sinks[i].path # sinks[j].path

\* C29: whenever the loop is about to capture a frame, currently_overlapping
\* is true exactly when overlap_streak >= FRAMES_CONFIRM; collision_count
\* never decreases and grows by at most one per step.
C29_FlagFollowsStreak ==
    /\ [](pc = "loop" => (currently_overlapping <=> overlap_streak >= FRAMES_CONFIRM))
    /\ [][collision_count' >= collision_count
           /\ collision_count' <= collision_count + 1]_vars

\* a contact that lasts three frames: the flag is up, one collision counted
C29_Witness ==
    /\ pc = "loop"
    /\ overlap_streak = 3
    /\ currently_overlapping
    /\ collision_count = 1


\* ---- the sensor readers ----

\* C23: send_to_database returns True exactly when the request returned a
\* response with status 200 or 201; for every other status and for every
\* exception of the request it returns False, no exception reaches the
\* monitoring loop, and the loop that sent goes on listening.
C23_SendResult ==
    /\ [](/\ \A k \in 1..Len(sends) :
                sends[k].ret <=> (/\ sends[k].response.exc = "none"
                                  /\ sends[k].response.status \in {200, 201})
          /\ reader_exc = "none")
    /\ [][(reader_pc = "listen" /\ Len(sends') > Len(sends)) => reader_pc' = "listen"]_vars

C23_Witness ==
    /\ reader_pc = "listen"
    /\ \E i, j \in 1..Len(sends) :
          /\ sends[i].response.status = 201 /\ sends[i].ret
          /\ sends[j].response.exc = "ValueError" /\ ~sends[j].ret /\ sends[j].hit_count >= 1

\* the readings that reached the threshold test: every G-force reading of the
\* single reader, every G-force reading paired with a gyroscope line
ProcessedReadings ==
    {k \in 1..Len(readings) :
        readings[k].kind = IF reader = "single" THEN "g_force" ELSE "gyroscope"}

\* the raw G-force value of the processed reading k
GForceOf(k) ==
    IF reader = "single" THEN readings[k].value
    ELSE readings[CHOOSE j \in 1..Len(readings) :
                      readings[j].kind = "g_force" /\ readings[j].hit = readings[k].hit].value

\* the G-force threshold of the reader that runs
ReaderThreshold == IF reader = "single" THEN THRESHOLD ELSE THRESHOLD_G

AlertedHit(hit) == \E a \in 1..Len(alerts) : alerts[a].hit = hit

SentHit(hit) == \E x \in 1..Len(sends) : sends[x].hit_count = hit

\* at least ALERT_COOLDOWN seconds between every earlier alert and entry k
CooldownPassed(k) ==
    \A a \in 1..Len(alerts) :
        alerts[a].hit < readings[k].hit => readings[k].at - alerts[a].at >= alert_cooldown

C25_AngularDisplayOnly ==
    reader = "paired" =>
        \A x \in 1..Len(sends) :
            (sends[x].with_gyro /\ ang_threshold_exceeded(sends[x].gyro_data)) =>
                (AlertedHit(sends[x].hit_count) \/ send_all_data)

\* C26: in the paired reader every G-force reading above THRESHOLD_G read
\* with the cooldown elapsed has a send attempt carrying it, or is still the
\* reading kept for the next gyroscope line (a reading that is neither is
\* never sent later: the sends carry the latest reading only).
C26_ExceedingReadingSent ==
    reader = "paired" =>
        \A k \in 1..Len(readings) :
            (/\ readings[k].kind = "g_force"
             /\ g_threshold_exceeded(readings[k].value)
             /\ CooldownPassed(k)) =>
                \/ \E x \in 1..Len(sends) :
                       /\ sends[x].hit_count = readings[k].hit
                       /\ sends[x].magnitude = readings[k].value
                \/ (waiting_for_gyroscope /\ hit_count = readings[k].hit)

\* C27: with SEND_ALL_DATA on, every parsed G-force reading has a send
\* attempt (in the paired reader: or is still kept for the next gyroscope
\* line).
C27_SendAllSendsAll ==
    send_all_data =>
        \A k \in 1..Len(readings) :
            readings[k].kind = "g_force" =>
                \/ SentHit(readings[k].hit)
                \/ (reader = "paired" /\ waiting_for_gyroscope /\ hit_count = readings[k].hit)

=============================================================================
